---- MODULE Spec2Model ----
(***************************************************************************)
(* Model of intl-lib: the locale store (context.ts), the per-locale        *)
(* dictionary loading through useSWRImmutable (useTranslationSWR), the     *)
(* path lookup with default-locale fallback and the placeholder            *)
(* interpolation (useTranslation), and the tag dispatch (Translation).     *)
(*                                                                         *)
(* JavaScript strings are sequences of one-character strings, so that the  *)
(* two regular expressions of the source are modelled by what they match.  *)
(* JavaScript values are tagged records: undefined, null, a string, a      *)
(* number, or a plain object (a function from keys to values).             *)
(***************************************************************************)
EXTENDS Integers, Sequences, FiniteSets, TLC

VARIABLES phase, storeCreated, dictionaries, renderers, locale,
          cache, consumers, last, call

vars == <<phase, storeCreated, dictionaries, renderers, locale,
          cache, consumers, last, call>>

(***************************************************************************)
(* Bounds                                                                  *)
(***************************************************************************)
NumConsumers == 2
MaxInvocations == 2
MaxParts == 2

(***************************************************************************)
(* JavaScript values                                                       *)
(***************************************************************************)
Undefined == [t |-> "undefined"]
JsNull == [t |-> "null"]
Str(s) == [t |-> "string", s |-> s]
Num(n) == [t |-> "number", n |-> n]
Obj(m) == [t |-> "object", m |-> m]

IsNullish(v) == v.t \in {"undefined", "null"}

\* JavaScript's `a ?? b`
Coalesce(a, b) == IF IsNullish(a) THEN b ELSE a

RECURSIVE Flatten(_)
Flatten(ss) == IF ss = <<>> THEN <<>> ELSE Head(ss) \o Flatten(Tail(ss))

Digit(d) == <<"0", "1", "2", "3", "4", "5", "6", "7", "8", "9">>[d + 1]

\* JavaScript's ToString, applied by String.prototype.replace to what the
\* replacer function returns
ToStringChars(v) ==
  CASE v.t = "string" -> v.s
    [] v.t = "number" -> <<Digit(v.n)>>
    [] v.t = "object" -> <<"[", "o", "b", "j", "e", "c", "t", " ",
                           "O", "b", "j", "e", "c", "t", "]">>
    [] v.t = "null" -> <<"n", "u", "l", "l">>
    [] OTHER -> <<"u", "n", "d", "e", "f", "i", "n", "e", "d">>

(***************************************************************************)
(* lodash get(object, path) for a string path                              *)
(***************************************************************************)
RECURSIVE SplitFrom(_, _, _)
SplitFrom(s, i, acc) ==
  IF i > Len(s) THEN <<acc>>
  ELSE IF s[i] = "." THEN <<acc>> \o SplitFrom(s, i + 1, <<>>)
  ELSE SplitFrom(s, i + 1, Append(acc, s[i]))

\* stringToPath: the segments between the dots, empty segments included
stringToPath(s) == SplitFrom(s, 1, <<>>)

\* isKey: a path without a dot, or a path that is itself a key of the object
isKey(path, object) ==
  \/ \A i \in 1..Len(path) : path[i] # "."
  \/ object.t = "object" /\ path \in DOMAIN object.m

castPath(path, object) == IF isKey(path, object) THEN <<path>> ELSE stringToPath(path)

RECURSIVE baseGet(_, _)
baseGet(object, segs) ==
  IF segs = <<>> THEN object
  ELSE IF object.t = "object" /\ Head(segs) \in DOMAIN object.m
       THEN baseGet(object.m[Head(segs)], Tail(segs))
       ELSE Undefined

get(object, path) ==
  IF IsNullish(object) THEN Undefined ELSE baseGet(object, castPath(path, object))

(***************************************************************************)
(* The placeholder pattern  /\$\{\s*([\w.]+)\s*\}/g  and String.replace    *)
(***************************************************************************)
WordChars ==
  {"a", "b", "c", "d", "e", "f", "g", "h", "i", "j", "k", "l", "m", "n", "o",
   "p", "q", "r", "s", "t", "u", "v", "w", "x", "y", "z",
   "A", "B", "C", "D", "E", "F", "G", "H", "I", "J", "K", "L", "M", "N", "O",
   "P", "Q", "R", "S", "T", "U", "V", "W", "X", "Y", "Z",
   "0", "1", "2", "3", "4", "5", "6", "7", "8", "9", "_"}

KeyChars == WordChars \cup {"."}

SpaceChars == {" ", "\t", "\n", "\r"}

\* the first position at or after i whose character is outside the class
RECURSIVE SkipIn(_, _, _)
SkipIn(s, i, class) ==
  IF i <= Len(s) /\ s[i] \in class THEN SkipIn(s, i + 1, class) ELSE i

\* the match of the placeholder pattern that starts at position i, if any:
\* the classes \s and [\w.] are disjoint and neither contains "}", so the
\* greedy match is the only one
MatchPlaceholderAt(s, i) ==
  IF i + 1 <= Len(s) /\ s[i] = "$" /\ s[i + 1] = "{"
  THEN LET j == SkipIn(s, i + 2, SpaceChars)
           k == SkipIn(s, j, KeyChars)
           e == SkipIn(s, k, SpaceChars)
       IN IF k > j /\ e <= Len(s) /\ s[e] = "}"
          THEN [ok |-> TRUE, key |-> SubSeq(s, j, k - 1), end |-> e]
          ELSE [ok |-> FALSE, key |-> <<>>, end |-> i]
  ELSE [ok |-> FALSE, key |-> <<>>, end |-> i]

\* a replacer that keeps the placeholder also when the value is falsy
ReplacerFalsy(params, match, key) ==
  LET v == get(params, key)
  IN IF IsNullish(v) \/ v = Str(<<>>) \/ v = Num(0) THEN match ELSE ToStringChars(v)

\* (match, key) => get(memoizedParams, key) ?? match
Replacer(params, match, key) ==
  ToStringChars(Coalesce(get(params, key), Str(match)))

RECURSIVE ReplaceFrom(_, _, _)
ReplaceFrom(s, i, params) ==
  IF i > Len(s) THEN <<>>
  ELSE LET m == MatchPlaceholderAt(s, i)
       IN IF m.ok
          THEN Replacer(params, SubSeq(s, i, m.end), m.key) \o ReplaceFrom(s, m.end + 1, params)
          ELSE <<s[i]>> \o ReplaceFrom(s, i + 1, params)

\* a replacement that is applied again to its own output
InterpolateTwice(translation, params) ==
  IF ~IsNullish(params) /\ translation.t = "string"
  THEN Str(ReplaceFrom(ReplaceFrom(translation.s, 1, params), 1, params))
  ELSE translation

\* the `content` memo of useTranslation
Interpolate(translation, params) ==
  IF ~IsNullish(params) /\ translation.t = "string"
  THEN Str(ReplaceFrom(translation.s, 1, params))
  ELSE translation

(***************************************************************************)
(* The tag pattern: "[" type "]" at position 0, then any characters but   *)
(* line terminators up to the end of the string                            *)
(***************************************************************************)
availableTypes ==
  << <<"m", "d">>, <<"m", "d", "x">>, <<"m", "a", "r", "k", "d", "o", "w", "n">>,
     <<"i", "m", "g">>, <<"i", "m", "a", "g", "e">>, <<"s", "v", "g">>,
     <<"h", "t", "m", "l">> >>

\* the characters `.` does not match (no s flag)
LineTerminators == {"\n", "\r"}

StartsWithAt(s, i, p) ==
  /\ i + Len(p) - 1 <= Len(s)
  /\ \A n \in 1..Len(p) : s[i + n - 1] = p[n]

\* a pattern without the anchor at position 0: "[type]" anywhere in the string
TagMatchesAnywhere(s, type) ==
  \E i \in 1..Len(s) :
    /\ StartsWithAt(s, i, <<"[">> \o type \o <<"]">>)
    /\ \A n \in 1..Len(s) : s[n] \notin LineTerminators

\* "[type]" at position 0, then dot-star-dollar without the m and s flags: the
\* rest may hold no line terminator
TagMatches(s, type) ==
  /\ StartsWithAt(s, 1, <<"[">> \o type \o <<"]">>)
  /\ \A n \in (Len(type) + 3)..Len(s) : s[n] \notin LineTerminators

NoMatch == [matched |-> FALSE, type |-> <<>>, content |-> <<>>]

\* content.match(matchRegex): the alternatives are tried in order
matchRegex(s) ==
  IF \E n \in 1..Len(availableTypes) : TagMatches(s, availableTypes[n])
  THEN LET n == CHOOSE n \in 1..Len(availableTypes) :
                  /\ TagMatches(s, availableTypes[n])
                  /\ \A k \in 1..(n - 1) : ~TagMatches(s, availableTypes[k])
           type == availableTypes[n]
       IN [matched |-> TRUE, type |-> type,
           content |-> SubSeq(s, Len(type) + 3, Len(s))]
  ELSE NoMatch


(***************************************************************************)
(* Configuration: locale identifiers, dictionary sources, dictionaries     *)
(***************************************************************************)
Locales == {"en-US", "fr-FR", "zh-CN"}

\* the value of an omitted localeOverride, and of the key of an unmounted hook
NoLocale == "none"

\* dictionaries[locale] is absent, a translation object, or a loader function
SourceKinds == {"absent", "concrete", "deferred"}

isTranslationLoader(source) == source = "deferred"

\* the default value of the defaultLocale prop
defaultLocale == "en-US"

\* the translation object a locale's source holds or produces
DictOf(l) ==
  CASE l = "en-US" ->
         Obj((<<"a">> :> Obj(<<"b">> :> Str(<<"X">>)))
             @@ (<<"c">> :> Obj(<<"d">> :> Str(<<"H", "i", " ", "$", "{", "n", "}">>))))
    [] l = "fr-FR" -> Obj(<<"a">> :> Obj(<<>>))
    [] OTHER -> Obj(<<"a">> :> Obj(<<"b">> :> Str(<<"Y">>)))

\* the configurations a provider is mounted with: zh-CN is never declared,
\* fr-FR always is, and one of the declared sources is a loader
Configurations ==
  {d \in [Locales -> SourceKinds] :
     /\ d["zh-CN"] = "absent"
     /\ d["fr-FR"] # "absent"
     /\ d["en-US"] = "concrete" <=> d["fr-FR"] = "deferred"}

\* the paths and params the consumers pass to useTranslation
Paths == {Undefined, Str(<<>>), Str(<<"a", ".", "b">>), Str(<<"c", ".", "d">>)}

ParamSets == {Undefined, Obj(<<"n">> :> Str(<<"A">>))}

\* the (path, params) pairs of the calls: params matter for a string only
Requests ==
  {r \in Paths \X ParamSets : r[2] = Undefined \/ r[1] = Str(<<"c", ".", "d">>)}

Consumers == 1..NumConsumers

(***************************************************************************)
(* The SWR cache entry of a locale's source.  useSWRImmutable keys the     *)
(* entry by the source object, and distinct locales declare distinct       *)
(* sources.  What the model takes from SWR: a hook that mounts on an entry *)
(* without data revalidates, with data it does not (immutable); a request  *)
(* in flight for a key is shared by all hooks of the key; an error is      *)
(* retried while a hook of the key is mounted; subscribers are re-rendered *)
(* when the entry changes.                                                 *)
(***************************************************************************)
EmptyEntry ==
  [data |-> Undefined, error |-> FALSE, fetching |-> FALSE, invoked |-> 0, failed |-> 0]

\* the load record of the specification, read off the cache entry
LoadState(e) ==
  CASE e.fetching -> "Pending"
    [] ~IsNullish(e.data) -> "Resolved"
    [] e.error -> "Failed"
    [] OTHER -> "Unresolved"

\* a consumer is a mounted component that calls useTranslation: the key of
\* its target hook and the data the hook returned last
Unmounted == [key |-> NoLocale, data |-> Undefined]

\* `last` records the latest call on the registry: a setLocale, or a
\* resolution with its inputs, the effective locale, the load record found,
\* whether the call started a request, and what it returned; setTo is the
\* argument of the latest setLocale

NoCall ==
  [kind |-> "none", locale |-> NoLocale, override |-> NoLocale, path |-> Undefined,
   params |-> Undefined, state |-> "none", started |-> FALSE, result |-> Undefined,
   setTo |-> NoLocale]

Idle == [op |-> "none"]

\* the renderers prop: omitted, or a record of renderers by content type
NoRenderers == [configured |-> FALSE, types |-> {}]

Init ==
  /\ phase = "init"
  /\ storeCreated = FALSE
  /\ dictionaries \in Configurations
  /\ renderers = NoRenderers
  /\ locale \in Locales
  /\ cache = [l \in Locales |-> EmptyEntry]
  /\ consumers = [c \in Consumers |-> Unmounted]
  /\ last = NoCall
  /\ call = Idle

(***************************************************************************)
(* context.ts                                                              *)
(***************************************************************************)
\* IntlProvider with the invariant on dictionaries[defaultLocale]
IntlProvider ==
  /\ phase = "init"
  /\ IF dictionaries[defaultLocale] = "absent"
     THEN phase' = "configError" /\ storeCreated' = FALSE
     ELSE phase' = "created" /\ storeCreated' = TRUE
  /\ UNCHANGED <<dictionaries, renderers, locale, cache, consumers, last, call>>

\* IntlProvider of src/src/context.ts: the store is created without a check
IntlProviderUnchecked ==
  /\ phase = "init"
  /\ phase' = "created"
  /\ storeCreated' = TRUE
  /\ UNCHANGED <<dictionaries, renderers, locale, cache, consumers, last, call>>

\* a revalidation that always starts a new request
StartFetchNoDedupe(e) ==
  [e EXCEPT !.fetching = TRUE, !.invoked = e.invoked + 1]

\* SWR's revalidate with dedupe: a request in flight for the key is shared
StartFetch(e) ==
  IF e.fetching THEN e ELSE [e EXCEPT !.fetching = TRUE, !.invoked = e.invoked + 1]

\* a guard that lets every locale pass
declaredAlways(source) == TRUE

\* invariant(translation != null, ...) of useTranslationSWR
declared(source) == source # "absent"

\* an initializer whose hook does not check that the locale is declared
IntlInitializerUnchecked ==
  /\ phase = "created"
  /\ phase' = "running"
  /\ cache' = [cache EXCEPT ![defaultLocale] = StartFetch(@)]
  /\ UNCHANGED <<storeCreated, dictionaries, renderers, locale, consumers, last, call>>

\* the first render of IntlInitializer: useTranslationSWR(defaultLocale) and
\* the mount of its hook
IntlInitializer ==
  /\ phase = "created"
  /\ IF ~declared(dictionaries[defaultLocale])
     THEN phase' = "initError" /\ UNCHANGED cache
     ELSE /\ phase' = "running"
          /\ cache' = [cache EXCEPT ![defaultLocale] = StartFetch(@)]
  /\ UNCHANGED <<storeCreated, dictionaries, renderers, locale, consumers, last, call>>

\* an initializer that renders its children whatever its hook returned
GateOpenAlways == phase = "running"

\* IntlInitializer renders its children: data != null && error == null
GateOpen ==
  /\ phase = "running"
  /\ ~IsNullish(cache[defaultLocale].data)
  /\ ~cache[defaultLocale].error

\* a setLocale that also starts the load of the locale it selects
SetLocaleLoading(x) ==
  /\ GateOpen
  /\ locale' = x
  /\ last' = [NoCall EXCEPT !.kind = "setLocale", !.setTo = x]
  /\ cache' = IF declared(dictionaries[x]) /\ LoadState(cache[x]) = "Unresolved"
              THEN [cache EXCEPT ![x] = StartFetch(@)]
              ELSE cache
  /\ UNCHANGED <<phase, storeCreated, dictionaries, renderers, consumers, call>>

\* setLocale: locale => set({ locale })
SetLocale(x) ==
  /\ GateOpen
  /\ locale' = x
  /\ last' = [NoCall EXCEPT !.kind = "setLocale", !.setTo = x]
  /\ UNCHANGED <<phase, storeCreated, dictionaries, renderers, cache, consumers, call>>


(***************************************************************************)
(* useTranslationSWR and useTranslation                                    *)
(***************************************************************************)
\* the effective locale read from state.defaultLocale instead of state.locale
\* the override is ignored
EffectiveLocaleActive(override, active) == active

EffectiveLocaleDefault(override, active) ==
  IF override = NoLocale THEN defaultLocale ELSE override

\* localeOverride ?? locale
EffectiveLocale(override, active) ==
  IF override = NoLocale THEN active ELSE override

\* no default for the data of the target locale
WithDefaultNone(data, defaults) == data

\* const { data = defaults } = ...: the default applies to undefined only
WithDefault(data, defaults) == IF data.t = "undefined" THEN defaults ELSE data

\* a lookup without the whole-dictionary case of an omitted path
TranslateNoWhole(data, path) ==
  IF ~IsNullish(data) /\ ~IsNullish(path) THEN get(data, path.s) ELSE Undefined

\* data != null && path != null ? get(data, path) : data
Translate(data, path) ==
  IF ~IsNullish(data) /\ ~IsNullish(path) THEN get(data, path.s) ELSE data

\* a resolution that prefers the default dictionary to the target's data
useTranslationDefaultsFirst(data, defaults, path, params) ==
  Interpolate(Translate(WithDefault(defaults, data), path), params)

\* what useTranslation returns for the data of its two hooks
useTranslation(data, defaults, path, params) ==
  Interpolate(Translate(WithDefault(data, defaults), path), params)

\* a mount that revalidates also when the entry has data
MountEntriesRevalidate(e) == {StartFetch(e)}

\* the entries the mount of a hook can leave: SWR revalidates on mount when
\* there is no data; a request in flight is shared; after a failure the
\* mount either falls in the deduping interval of the failed request or
\* starts a new one
MountEntries(e) ==
  IF ~(e.data.t = "undefined") THEN {e}
  ELSE IF e.error /\ ~e.fetching
       THEN {e} \cup (IF e.invoked < MaxInvocations THEN {StartFetch(e)} ELSE {})
       ELSE {StartFetch(e)}

\* a render of a consumer that calls useTranslation(path, params,
\* localeOverride), and the commit of its hooks
Resolve(c, path, params, override) ==
  /\ GateOpen
  /\ LET target == EffectiveLocale(override, locale)
         e == cache[target]
         defaults == cache[defaultLocale].data
     IN IF ~declared(dictionaries[target])
        THEN \* the invariant of useTranslationSWR throws: nothing is committed
             /\ last' = [kind |-> "error", locale |-> target, override |-> override,
                         path |-> path, params |-> params, state |-> "none",
                         started |-> FALSE, result |-> Undefined,
                         setTo |-> last.setTo]
             /\ consumers' = [consumers EXCEPT ![c] = Unmounted]
             /\ UNCHANGED cache
        ELSE \E e2 \in (IF consumers[c].key = target THEN {e} ELSE MountEntries(e)) :
             /\ cache' = [cache EXCEPT ![target] = e2]
             /\ consumers' = [consumers EXCEPT ![c] = [key |-> target, data |-> e.data]]
             /\ last' = [kind |-> "value", locale |-> target, override |-> override,
                         path |-> path, params |-> params, state |-> LoadState(e),
                         started |-> (e2.invoked > e.invoked),
                         result |-> useTranslation(e.data, defaults, path, params),
                         setTo |-> last.setTo]
  /\ UNCHANGED <<phase, storeCreated, dictionaries, renderers, locale, call>>

\* the subscribers of a key are re-rendered with the data of its entry
Notify(cs, l, data) ==
  [c \in Consumers |-> IF cs[c].key = l THEN [cs[c] EXCEPT !.data = data] ELSE cs[c]]

\* the request of a key completes with the dictionary
LoadSuccess(l) ==
  /\ cache[l].fetching
  /\ cache' = [cache EXCEPT ![l] = [@ EXCEPT !.data = DictOf(l), !.error = FALSE,
                                             !.fetching = FALSE]]
  /\ consumers' = Notify(consumers, l, DictOf(l))
  /\ UNCHANGED <<phase, storeCreated, dictionaries, renderers, locale, last, call>>

\* the loader of a key throws or rejects
LoadFailure(l) ==
  /\ cache[l].fetching
  /\ isTranslationLoader(dictionaries[l])
  /\ cache' = [cache EXCEPT ![l] = [@ EXCEPT !.error = TRUE, !.fetching = FALSE,
                                             !.failed = @ + 1]]
  /\ UNCHANGED <<phase, storeCreated, dictionaries, renderers, locale, consumers, last, call>>

\* a hook of the key is mounted: the initializer's, or a consumer's
Mounted(l) ==
  \/ l = defaultLocale /\ phase = "running"
  \/ \E c \in Consumers : consumers[c].key = l

\* a revalidation of a mounted key in any state of its entry, as useSWR does
\* on focus or reconnect
RetryRevalidating(l) ==
  /\ Mounted(l)
  /\ cache[l].invoked < MaxInvocations
  /\ cache' = [cache EXCEPT ![l] = StartFetch([@ EXCEPT !.fetching = FALSE])]
  /\ UNCHANGED <<phase, storeCreated, dictionaries, renderers, locale, consumers, last, call>>

\* SWR's error retry (shouldRetryOnError is left at its default)
Retry(l) ==
  /\ Mounted(l)
  /\ LoadState(cache[l]) = "Failed"
  /\ cache[l].invoked < MaxInvocations
  /\ cache' = [cache EXCEPT ![l] = StartFetch(@)]
  /\ UNCHANGED <<phase, storeCreated, dictionaries, renderers, locale, consumers, last, call>>

\* a teardown that aborts the request its consumer was waiting for
UnmountAborting(c) ==
  /\ consumers[c].key # NoLocale
  /\ consumers' = [consumers EXCEPT ![c] = Unmounted]
  /\ cache' = [cache EXCEPT ![consumers[c].key] = [@ EXCEPT !.fetching = FALSE]]
  /\ UNCHANGED <<phase, storeCreated, dictionaries, renderers, locale, last, call>>

\* a consumer is torn down
Unmount(c) ==
  /\ consumers[c].key # NoLocale
  /\ consumers' = [consumers EXCEPT ![c] = Unmounted]
  /\ UNCHANGED <<phase, storeCreated, dictionaries, renderers, locale, cache, last, call>>

Overrides == Locales \cup {NoLocale}

Next ==
  \/ IntlProvider
  \/ IntlProviderUnchecked
  \/ IntlInitializer
  \/ \E x \in Locales : SetLocale(x)
  \/ \E c \in Consumers, r \in Requests, override \in Overrides :
       Resolve(c, r[1], r[2], override)
  \/ \E l \in Locales : LoadSuccess(l)
  \/ \E l \in Locales : LoadFailure(l)
  \/ \E l \in Locales : Retry(l)
  \/ \E c \in Consumers : Unmount(c)

Spec == Init /\ [][Next]_vars


(***************************************************************************)
(* Translation: interpolation through useTranslation, then tag dispatch    *)
(***************************************************************************)
\* renderers?.[type]
RegistryHas(registry, type) == registry.configured /\ type \in registry.types

\* the body of Translation after useTranslation returned `content`
Dispatch(content, rendererOverride, registry) ==
  IF content.t # "string"
  THEN \* content.match is not callable on a value that is not a string
       [kind |-> "error", error |-> "TypeError", renderer |-> "none", content |-> <<>>]
  ELSE LET match == matchRegex(content.s)
       IN IF match.matched
          THEN IF rendererOverride # "none"
               THEN [kind |-> "element", error |-> "none",
                     renderer |-> rendererOverride, content |-> match.content]
               ELSE IF RegistryHas(registry, match.type)
               THEN [kind |-> "element", error |-> "none",
                     renderer |-> "registry", content |-> match.content]
               ELSE [kind |-> "error", error |-> "UnregisteredRenderer",
                     renderer |-> "none", content |-> <<>>]
          ELSE IF rendererOverride # "none"
               THEN [kind |-> "element", error |-> "none",
                     renderer |-> rendererOverride, content |-> content.s]
               ELSE [kind |-> "text", error |-> "none", renderer |-> "none",
                     content |-> content.s]

(***************************************************************************)
(* Inputs of the text operations                                           *)
(***************************************************************************)
\* a string is built from parts: literal text, or a placeholder with the
\* segments of its key
Lit(chars) == [ph |-> FALSE, text |-> chars, segs |-> <<>>]
Ph(chars, segs) == [ph |-> TRUE, text |-> chars, segs |-> segs]

Parts ==
  { Lit(<<"H", "i", " ">>), Lit(<<"!">>), Lit(<<"$">>), Lit(<<"$", "{", "}">>),
    Lit(<<"$", "{", "a", "-", "b", "}">>),
    Ph(<<"$", "{", "n", "}">>, << <<"n">> >>),
    Ph(<<"$", "{", " ", "n", " ", "}">>, << <<"n">> >>),
    Ph(<<"$", "{", "a", ".", "b", "}">>, << <<"a">>, <<"b">> >>),
    Ph(<<"$", "{", "a", "}">>, << <<"a">> >>),
    Ph(<<"$", "{", "z", "}">>, << <<"z">> >>),
    Ph(<<"$", "{", "e", "}">>, << <<"e">> >>),
    Ph(<<"$", "{", "u", "}">>, << <<"u">> >>),
    Ph(<<"$", "{", "m", "}">>, << <<"m">> >>) }

PartSeqs == UNION {[1..n -> Parts] : n \in 0..MaxParts}

Render(parts) == Flatten([n \in 1..Len(parts) |-> parts[n].text])

\* the params objects passed to the interpolation
InterpParams ==
  { Obj(<<>>),
    Obj((<<"n">> :> Str(<<"A">>)) @@ (<<"z">> :> Num(0)) @@ (<<"e">> :> Str(<<>>))
        @@ (<<"u">> :> JsNull) @@ (<<"a">> :> Obj(<<"b">> :> Str(<<"B">>)))),
    Obj((<<"n">> :> Str(<<"$", "{", "z", "}">>)) @@ (<<"z">> :> Num(0))) }

\* the renderers configurations
Registries ==
  { NoRenderers,
    [configured |-> TRUE, types |-> {}],
    [configured |-> TRUE, types |-> {availableTypes[6]}],
    [configured |-> TRUE, types |-> {availableTypes[n] : n \in 1..Len(availableTypes)}] }

\* how a translation string starts: with a recognized tag, or otherwise
Tagged(type) == [tag |-> type, text |-> <<"[">> \o type \o <<"]">>]
Untagged(chars) == [tag |-> <<>>, text |-> chars]

Prefixes ==
  {Tagged(availableTypes[n]) : n \in 1..Len(availableTypes)}
  \cup { Untagged(<<>>), Untagged(<<"x", "[", "m", "d", "]">>),
         Untagged(<<"[", "f", "o", "o", "]">>), Untagged(<<"[", "M", "D", "]">>),
         Untagged(<<"[", "m", "d">>), Untagged(<<" ", "[", "m", "d", "]">>),
         Untagged(<<"$", "{", "n", "}">>) }

Remainders ==
  { <<>>, <<"#", " ", "T">>, <<"a", "\n", "b">>, <<"\n">>, <<"<", "s", "v", "g", "/", ">">>,
    <<"[", "m", "d", "]", "x">>, <<"$", "{", "n", "}">> }

TranslationParams == {Undefined, Obj(<<"n">> :> Str(<<"[", "m", "d", "]">>))}

RendererOverrides == {"none", "override"}

InitText ==
  /\ phase = "init"
  /\ storeCreated = FALSE
  /\ dictionaries = [l \in Locales |-> "absent"]
  /\ renderers \in Registries
  /\ locale = defaultLocale
  /\ cache = [l \in Locales |-> EmptyEntry]
  /\ consumers = [c \in Consumers |-> Unmounted]
  /\ last = NoCall
  /\ call = Idle

\* each behaviour of TextSpec is one application of a text operation to one
\* input

\* the content memo of useTranslation applied to a translation string
InterpolateCall ==
  /\ call = Idle
  /\ \E parts \in PartSeqs, params \in InterpParams :
       call' = [op |-> "interpolate", parts |-> parts, params |-> params,
                out |-> Interpolate(Str(Render(parts)), params)]
  /\ UNCHANGED <<phase, storeCreated, dictionaries, renderers, locale, cache, consumers, last>>

\* Translation applied to the translation found at its path
TranslationCall ==
  /\ call = Idle
  /\ \E prefix \in Prefixes, rest \in Remainders, params \in TranslationParams,
        rendererOverride \in RendererOverrides :
       LET content == Interpolate(Str(prefix.text \o rest), params)
       IN call' = [op |-> "Translation", prefix |-> prefix, rest |-> rest,
                   params |-> params, rendererOverride |-> rendererOverride,
                   content |-> content,
                   out |-> Dispatch(content, rendererOverride, renderers)]
  /\ UNCHANGED <<phase, storeCreated, dictionaries, renderers, locale, cache, consumers, last>>

\* Translation applied at a path without a string translation
TranslationCallNoString ==
  /\ call = Idle
  /\ \E value \in {Undefined, Obj(<<>>)}, rendererOverride \in RendererOverrides :
       call' = [op |-> "Translation", prefix |-> Untagged(<<>>), rest |-> <<>>,
                params |-> Undefined, rendererOverride |-> rendererOverride,
                content |-> value,
                out |-> Dispatch(value, rendererOverride, renderers)]
  /\ UNCHANGED <<phase, storeCreated, dictionaries, renderers, locale, cache, consumers, last>>

\* paths at which neither dictionary has a value
MissingPaths == {Str(<<"x">>), Str(<<"a", ".", "x">>)}

\* Translation rendered at a path: its content is what useTranslation
\* returns for the data of the target locale (undefined until it is loaded)
\* and the default dictionary
TranslationAtPath ==
  /\ call = Idle
  /\ \E target \in {"en-US", "fr-FR"}, resolved \in BOOLEAN,
        path \in Paths \cup MissingPaths, rendererOverride \in RendererOverrides :
       LET data == IF resolved THEN DictOf(target) ELSE Undefined
           content == useTranslation(data, DictOf(defaultLocale), path, Undefined)
       IN call' = [op |-> "TranslationAtPath", locale |-> target,
                   resolved |-> resolved, path |-> path,
                   rendererOverride |-> rendererOverride,
                   content |-> content,
                   out |-> Dispatch(content, rendererOverride, renderers)]
  /\ UNCHANGED <<phase, storeCreated, dictionaries, renderers, locale, cache, consumers, last>>

NextText ==
  InterpolateCall \/ TranslationCall \/ TranslationCallNoString \/ TranslationAtPath

TextSpec == InitText /\ [][NextText]_vars


(***************************************************************************)
(* Properties                                                              *)
(***************************************************************************)
IsCall == last.kind \in {"value", "error"}

\* C1: single-flight.  For a locale whose source is a loader, every load
\* attempt invokes the loader exactly once however many resolution calls
\* target the locale while its record is Unresolved or Pending (so a record
\* that never failed and is Pending or Resolved has one invocation), and once
\* the load succeeded every consumer subscribed to the locale observes the
\* one resolved dictionary.
SingleFlight ==
  \A l \in Locales :
    isTranslationLoader(dictionaries[l]) =>
      /\ LoadState(cache[l]) = "Unresolved" => cache[l].invoked = 0
      /\ LoadState(cache[l]) \in {"Pending", "Resolved"} =>
           cache[l].invoked = cache[l].failed + 1
      /\ LoadState(cache[l]) = "Failed" => cache[l].invoked = cache[l].failed
      /\ \A c \in Consumers :
           consumers[c].key = l /\ LoadState(cache[l]) = "Resolved" =>
             consumers[c].data = DictOf(l)

\* every consumer called for the loader's locale, the last of them while the
\* load was pending, and the load succeeded after one invocation
SingleFlightWitness ==
  \E l \in Locales :
    /\ isTranslationLoader(dictionaries[l])
    /\ last.kind = "value" /\ last.locale = l /\ last.state = "Pending"
    /\ LoadState(cache[l]) = "Resolved"
    /\ cache[l].invoked = 1
    /\ \A c \in Consumers : consumers[c] = [key |-> l, data |-> DictOf(l)]

\* C2: value-level fallback.  When the target locale's dictionary is
\* Resolved and has no value at a non-empty path, the call yields the value
\* at that path in the default locale's dictionary.
ValueLevelFallback ==
  ( /\ last.kind = "value"
    /\ last.state = "Resolved"
    /\ last.path.t = "string" /\ last.path.s # <<>>
    /\ IsNullish(get(DictOf(last.locale), last.path.s)) )
  => last.result = Interpolate(get(DictOf(defaultLocale), last.path.s), last.params)

\* C3: load-once.  Once a locale's record is Resolved, no step changes its
\* cache entry (its value, its invocation count, no request in flight), and
\* every consumer that resolves the locale in that step observes that value.
LoadOnce ==
  [][\A l \in Locales :
       LoadState(cache[l]) = "Resolved" =>
         /\ cache'[l] = cache[l]
         /\ (last' # last /\ last'.kind = "value" /\ last'.locale = l) =>
              /\ last'.state = "Resolved"
              /\ ~last'.started
              /\ \E c \in Consumers : consumers'[c] = [key |-> l, data |-> cache[l].data]]_vars

\* a call for an already Resolved loader locale, after setLocale selected it,
\* with the loader still invoked once
LoadOnceWitness ==
  /\ last.kind = "value" /\ last.state = "Resolved"
  /\ last.locale # defaultLocale /\ last.setTo = last.locale /\ last.override = NoLocale
  /\ isTranslationLoader(dictionaries[last.locale])
  /\ cache[last.locale].invoked = 1
  /\ LoadState(cache[last.locale]) = "Resolved"

\* C4: whole-dictionary fallback on load failure.  A call whose target
\* locale's load has failed raises nothing and yields the default
\* dictionary's value at the path (absent if the default has none).
FailureFallback ==
  (IsCall /\ last.state = "Failed") =>
    /\ last.kind = "value"
    /\ last.result = Interpolate(Translate(DictOf(defaultLocale), last.path), last.params)

FailureFallbackWitness ==
  /\ last.kind = "value" /\ last.state = "Failed"
  /\ last.locale # defaultLocale
  /\ last.path = Str(<<"a", ".", "b">>)
  /\ last.result = Str(<<"X">>)

LocaleMutationVisible ==
  /\ (IsCall /\ last.override = NoLocale /\ last.setTo # NoLocale) =>
       last.locale = last.setTo
  /\ last.setTo # NoLocale => locale = last.setTo

\* after setLocale("fr-FR") a consumer resolves against fr-FR while another
\* consumer is still subscribed to the locale of its earlier call
LocaleMutationWitness ==
  /\ last.kind = "value" /\ last.override = NoLocale
  /\ last.setTo = "fr-FR" /\ last.locale = "fr-FR"
  /\ \E c, d \in Consumers : consumers[c].key = "fr-FR" /\ consumers[d].key = "en-US"


\* C8: tag dispatch.  A string that starts with a recognized [tag] is handed
\* to a renderer (the override if supplied, else the registry entry of the
\* tag) with exactly the remainder after the closing bracket as content,
\* whatever the remainder is.
TagDispatch ==
  ( /\ call.op = "Translation"
    /\ call.content.t = "string"
    /\ call.prefix.tag # <<>>
    /\ (call.rendererOverride # "none" \/ RegistryHas(renderers, call.prefix.tag)) )
  => /\ call.out.kind = "element"
     /\ call.out.renderer =
          (IF call.rendererOverride # "none" THEN call.rendererOverride ELSE "registry")
     /\ call.out.content =
          SubSeq(call.content.s, Len(call.prefix.text) + 1, Len(call.content.s))

\* C9: UnregisteredRenderer.  A string that starts with a recognized [tag],
\* with no override and no registry entry for the tag, makes the dispatch
\* fail; it is never returned as plain text.
UnregisteredRendererFails ==
  ( /\ call.op = "Translation"
    /\ call.content.t = "string"
    /\ call.prefix.tag # <<>>
    /\ call.rendererOverride = "none"
    /\ ~RegistryHas(renderers, call.prefix.tag) )
  => (call.out.kind = "error" /\ call.out.error = "UnregisteredRenderer")

\* the value at a path given by its segments
RECURSIVE LookupPath(_, _)
LookupPath(v, segs) ==
  IF segs = <<>> THEN v
  ELSE IF v.t = "object" /\ Head(segs) \in DOMAIN v.m
       THEN LookupPath(v.m[Head(segs)], Tail(segs))
       ELSE Undefined

\* what a part of the string becomes: a placeholder with a value becomes the
\* value's string form, everything else stays as written
ExpectedPart(part, params) ==
  IF part.ph /\ ~IsNullish(LookupPath(params, part.segs))
  THEN ToStringChars(LookupPath(params, part.segs))
  ELSE part.text

\* C10: interpolation.  With non-null params every placeholder whose key
\* path has a value in params is replaced by the value's string form, every
\* other placeholder and all other text is left as written.
InterpolationCorrect ==
  call.op = "interpolate" =>
    call.out = Str(Flatten([n \in 1..Len(call.parts) |->
                              ExpectedPart(call.parts[n], call.params)]))

\* "${n}${m}" with n = "A" and no m becomes "A${m}"
InterpolationWitness ==
  /\ call.op = "interpolate"
  /\ Len(call.parts) = 2
  /\ call.parts[1] = Ph(<<"$", "{", "n", "}">>, << <<"n">> >>)
  /\ call.parts[2] = Ph(<<"$", "{", "m", "}">>, << <<"m">> >>)
  /\ call.out = Str(<<"A", "$", "{", "m", "}">>)

\* C11: a missing translation is not an error.  When the path has no value
\* in the target locale's dictionary nor in the default locale's, the
\* resolution made through Translation has the absent result and raises no
\* error.
MissingTranslationNoError ==
  ( /\ call.op = "TranslationAtPath"
    /\ call.path.t = "string" /\ call.path.s # <<>>
    /\ IsNullish(get(DictOf(call.locale), call.path.s))
    /\ IsNullish(get(DictOf(defaultLocale), call.path.s)) )
  => /\ call.content = Undefined
     /\ call.out.kind # "error"

\* C12: undeclared current locale.  When the current locale has no source in
\* `dictionaries`, a resolution call falls back to the default locale's
\* dictionary and yields the value that dictionary has.
UndeclaredLocaleFallsBack ==
  ( /\ IsCall
    /\ last.override = NoLocale
    /\ ~declared(dictionaries[last.locale]) )
  => /\ last.kind = "value"
     /\ last.result = useTranslation(Undefined, DictOf(defaultLocale),
                                     last.path, last.params)

\* C13: locale override.  A resolution call made with a locale override
\* resolves the override locale: its result is what the override locale's
\* record and the default dictionary give for the path and params, whatever
\* the active locale is and whatever setLocale calls were made, and the call
\* leaves the active locale of the store unchanged.
LocaleOverrideFrame ==
  [][(last'.kind \in {"value", "error"} /\ last'.override # NoLocale) =>
       /\ last'.locale = last'.override
       /\ locale' = locale
       /\ last'.kind = "value" =>
            last'.result =
              useTranslation(IF last'.state = "Resolved"
                             THEN DictOf(last'.override) ELSE Undefined,
                             DictOf(defaultLocale), last'.path, last'.params)]_vars

\* after setLocale selected an undeclared locale, a call with the override
\* fr-FR yields the fr-FR dictionary and the active locale is as it was set
LocaleOverrideWitness ==
  /\ last.kind = "value"
  /\ last.override = "fr-FR"
  /\ last.setTo = "zh-CN" /\ locale = "zh-CN"
  /\ ~declared(dictionaries[locale])
  /\ last.state = "Resolved"
  /\ last.path = Undefined
  /\ last.result = DictOf("fr-FR")

SetLocaleFrame ==
  [][(last'.kind = "setLocale" /\ (last' # last \/ locale' # locale)) =>
       /\ locale' = last'.setTo
       /\ UNCHANGED <<phase, storeCreated, dictionaries, renderers, cache, consumers>>]_vars

\* setLocale selected the deferred locale fr-FR while a consumer shows the
\* default locale: no load of fr-FR was started
SetLocaleFrameWitness ==
  /\ last.kind = "setLocale" /\ last.setTo = "fr-FR"
  /\ locale = "fr-FR"
  /\ isTranslationLoader(dictionaries["fr-FR"])
  /\ LoadState(cache["fr-FR"]) = "Unresolved"
  /\ cache["fr-FR"].invoked = 0
  /\ \E c \in Consumers : consumers[c].key = defaultLocale

\* the string starts with "[type]" for a recognized type
StartsWithTag(s) ==
  \E n \in 1..Len(availableTypes) :
    StartsWithAt(s, 1, <<"[">> \o availableTypes[n] \o <<"]">>)

\* C16: untagged strings.  A translation string that does not start with a
\* recognized "[tag]" at position 0 (a tag later in the string and an
\* unrecognized bracketed word included) is never passed to a renderer of
\* the registry: with a renderer override the whole string goes to the
\* override, otherwise the string is returned unchanged as plain text.
UntaggedIsPlain ==
  ( /\ call.op = "Translation"
    /\ call.content.t = "string"
    /\ ~StartsWithTag(call.content.s) )
  => /\ call.out.renderer # "registry"
     /\ call.out.content = call.content.s
     /\ IF call.rendererOverride # "none"
        THEN call.out.kind = "element" /\ call.out.renderer = call.rendererOverride
        ELSE call.out.kind = "text"

\* "x[md]# T" with a registry that has an md renderer is returned as plain
\* text
UntaggedIsPlainWitness ==
  /\ call.op = "Translation"
  /\ call.prefix = Untagged(<<"x", "[", "m", "d", "]">>)
  /\ call.rest = <<"#", " ", "T">>
  /\ call.rendererOverride = "none"
  /\ RegistryHas(renderers, availableTypes[1])
  /\ call.out.kind = "text"
  /\ call.out.content = <<"x", "[", "m", "d", "]", "#", " ", "T">>

\* the string holds a placeholder
HasPlaceholder(s) == \E i \in 1..Len(s) : MatchPlaceholderAt(s, i).ok

\* C17: no double interpolation.  The substitution is one left-to-right
\* pass: when the value substituted for a placeholder itself holds
\* placeholder text, the result has that value as it is, at the place of
\* the placeholder, and it is not substituted again.
NoDoubleInterpolation ==
  call.op = "interpolate" =>
    \A n \in 1..Len(call.parts) :
      LET v == LookupPath(call.params, call.parts[n].segs)
          before == Flatten([k \in 1..(n - 1) |->
                               ExpectedPart(call.parts[k], call.params)])
      IN (call.parts[n].ph /\ v.t = "string" /\ HasPlaceholder(v.s)) =>
           StartsWithAt(call.out.s, Len(before) + 1, v.s)

\* "Hi ${n}" with n = "${z}" and z = 0 becomes "Hi ${z}", not "Hi 0"
NoDoubleInterpolationWitness ==
  /\ call.op = "interpolate"
  /\ Len(call.parts) = 2
  /\ call.parts[1] = Lit(<<"H", "i", " ">>)
  /\ call.parts[2] = Ph(<<"$", "{", "n", "}">>, << <<"n">> >>)
  /\ LookupPath(call.params, << <<"n">> >>) = Str(<<"$", "{", "z", "}">>)
  /\ LookupPath(call.params, << <<"z">> >>) = Num(0)
  /\ call.out = Str(<<"H", "i", " ", "$", "{", "z", "}">>)

\* the dictionary a call resolves in: the target locale's when its record is
\* Resolved, otherwise the default locale's
ResolvedDictionary ==
  IF last.state = "Resolved" THEN DictOf(last.locale) ELSE DictOf(defaultLocale)

\* C18: empty path (as stated).  A resolution with an omitted path or with
\* the empty string as path yields the whole dictionary of the target locale
\* when it is available, otherwise the whole default dictionary.
EmptyPathWholeDictionary ==
  (last.kind = "value" /\ last.path \in {Undefined, Str(<<>>)}) =>
    last.result = ResolvedDictionary

\* C18: empty path.  A resolution with an omitted path yields the whole
\* dictionary of the target locale when it is available, otherwise the whole
\* default dictionary; the empty string as path is looked up as the key ""
\* of that dictionary and yields the absent result when the dictionary has
\* no such key.
OmittedPathWholeDictionary ==
  /\ (last.kind = "value" /\ last.path = Undefined) =>
       last.result = ResolvedDictionary
  /\ (last.kind = "value" /\ last.path = Str(<<>>)) =>
       last.result = (IF <<>> \in DOMAIN ResolvedDictionary.m
                      THEN ResolvedDictionary.m[<<>>] ELSE Undefined)

\* a call without a path for fr-FR while its load is pending yields the
\* whole default dictionary
OmittedPathWitness ==
  /\ last.kind = "value"
  /\ last.path = Undefined
  /\ last.locale = "fr-FR"
  /\ last.state = "Pending"
  /\ last.result = DictOf(defaultLocale)

\* C19: requester teardown.  A step in which a consumer stops waiting for a
\* locale (it is torn down, or its hook leaves the locale's key) leaves the
\* locale's load record as it is; a Pending record changes only by
\* completing, with the dictionary or with the failure of its loader; while
\* the record is Pending or Resolved the loader is not invoked again; and a
\* consumer that is subscribed to a Resolved locale observes its dictionary.
TeardownKeepsLoad ==
  [][/\ \A c \in Consumers :
          LET k == consumers[c].key
          IN (k # NoLocale /\ consumers'[c].key # k) => cache'[k] = cache[k]
     /\ \A l \in Locales :
          /\ (LoadState(cache[l]) = "Pending" /\ cache'[l] # cache[l]) =>
               /\ ~cache'[l].fetching
               /\ cache'[l].data = DictOf(l) \/ cache'[l].error
          /\ LoadState(cache[l]) \in {"Pending", "Resolved"} =>
               cache'[l].invoked = cache[l].invoked
          /\ LoadState(cache'[l]) = "Resolved" =>
               \A c \in Consumers :
                 consumers'[c].key = l => consumers'[c].data = DictOf(l)]_vars

\* the one consumer that started the load of fr-FR is gone and the record is
\* still Pending after its one invocation
TeardownWitness ==
  /\ isTranslationLoader(dictionaries["fr-FR"])
  /\ last.kind = "value" /\ last.locale = "fr-FR" /\ last.started
  /\ \A c \in Consumers : consumers[c] = Unmounted
  /\ LoadState(cache["fr-FR"]) = "Pending"
  /\ cache["fr-FR"].invoked = 1

\* the default locale's record is Resolved with a value and without an error
DefaultReady ==
  /\ LoadState(cache[defaultLocale]) = "Resolved"
  /\ ~IsNullish(cache[defaultLocale].data)
  /\ ~cache[defaultLocale].error

\* C20: initialization gate.  A consumer's resolution call runs, and a
\* consumer is mounted or re-rendered, only in a state where the default
\* locale's record is Resolved with a non-null value and no error; as long
\* as that record is Unresolved, Pending or Failed no resolution call has
\* run and no consumer is mounted.
InitializationGate ==
  [][/\ ((last' # last /\ last'.kind \in {"value", "error"}) \/ consumers' # consumers)
          => DefaultReady
     /\ LoadState(cache'[defaultLocale]) # "Resolved" =>
          /\ last' = NoCall
          /\ \A c \in Consumers : consumers'[c] = Unmounted]_vars

\* the loader of the default locale failed once and succeeded on its second
\* invocation; only then a consumer resolved "a.b"
InitializationGateWitness ==
  /\ isTranslationLoader(dictionaries[defaultLocale])
  /\ cache[defaultLocale].failed = 1 /\ cache[defaultLocale].invoked = 2
  /\ last.kind = "value" /\ last.locale = defaultLocale
  /\ last.state = "Resolved"
  /\ last.path = Str(<<"a", ".", "b">>)
  /\ last.result = Str(<<"X">>)

\* C21: Pending target.  A resolution call made while the target locale's
\* record is Pending does not wait: it completes in its step with the value
\* at the path in the default locale's dictionary, and the load stays in
\* flight; once the target's record is Resolved every later resolution for
\* the locale yields the value computed from the target's dictionary.
PendingTargetDefault ==
  [][/\ (last'.kind \in {"value", "error"} /\ last'.state = "Pending") =>
          /\ last'.kind = "value"
          /\ last'.result =
               Interpolate(Translate(DictOf(defaultLocale), last'.path), last'.params)
          /\ last' # last => cache'[last'.locale].fetching
     /\ \A l \in Locales :
          ( /\ LoadState(cache[l]) = "Resolved"
            /\ last' # last /\ last'.kind \in {"value", "error"} /\ last'.locale = l ) =>
            /\ last'.kind = "value"
            /\ last'.state = "Resolved"
            /\ last'.result =
                 Interpolate(Translate(DictOf(l), last'.path), last'.params)]_vars

\* the call for "a.b" in fr-FR made while fr-FR was loading yielded the
\* default's "X"; the load then succeeded and the subscribed consumer has
\* the fr-FR dictionary
PendingTargetWitness ==
  /\ last.kind = "value" /\ last.locale = "fr-FR" /\ last.state = "Pending"
  /\ last.path = Str(<<"a", ".", "b">>)
  /\ last.result = Str(<<"X">>)
  /\ LoadState(cache["fr-FR"]) = "Resolved"
  /\ \E c \in Consumers : consumers[c] = [key |-> "fr-FR", data |-> DictOf("fr-FR")]

\* C22: dispatch independence from params.  For a fixed dictionary string,
\* whether Translation treats the result as tagged content, and the tag it
\* selects, are the same for every choice of params.
DispatchIndependentOfParams ==
  (call.op = "Translation" /\ call.content.t = "string") =>
    \A params \in TranslationParams :
      LET other == Interpolate(Str(call.prefix.text \o call.rest), params)
      IN /\ matchRegex(other.s).matched = matchRegex(call.content.s).matched
         /\ matchRegex(other.s).type = matchRegex(call.content.s).type

====
